---- MODULE Spec2Model ----
(***************************************************************************)
(* Model of dev-scripts/health_check_default_electrum_servers.py:          *)
(* main() deduplicates and sorts the extracted server URLs, submits one    *)
(* check_server task per URL to a ThreadPoolExecutor, consumes the futures *)
(* through as_completed and partitions the outcomes into working/broken.   *)
(*                                                                         *)
(* Text is modelled as sequences of one-character strings (URLs) and of    *)
(* byte tokens (socket data), so that parsing, decoding and stripping are  *)
(* computed and can fail.                                                  *)
(***************************************************************************)
EXTENDS Naturals, Integers, Sequences, FiniteSets, TLC

(***************************************************************************)
(* Bounds of the model.                                                    *)
(***************************************************************************)
\* longest input list (rust_servers + ts_servers) drawn in Init
MaxInput == 3
\* width of the thread pool in the model (the script passes max_workers=10)
MaxWorkers == 2
\* bytes of a trickling peer that the model records in the receive buffer
MaxResp == 2

(***************************************************************************)
(* Generic sequence helpers.                                               *)
(***************************************************************************)
Range(s) == {s[i] : i \in 1..Len(s)}

\* str.find: index of the first occurrence of c in s, 0 when absent
IndexOf(s, c) ==
  IF \E i \in 1..Len(s) : s[i] = c
  THEN CHOOSE i \in 1..Len(s) : s[i] = c /\ \A j \in 1..(i-1) : s[j] # c
  ELSE 0

\* index of the last occurrence of c in s, 0 when absent
LastIndexOf(s, c) ==
  IF \E i \in 1..Len(s) : s[i] = c
  THEN CHOOSE i \in 1..Len(s) : s[i] = c /\ \A j \in (i+1)..Len(s) : s[j] # c
  ELSE 0

\* index of the first element of s that lies in the set cs, 0 when none does
IndexOfAny(s, cs) ==
  IF \E i \in 1..Len(s) : s[i] \in cs
  THEN CHOOSE i \in 1..Len(s) : s[i] \in cs /\ \A j \in 1..(i-1) : s[j] \notin cs
  ELSE 0

\* s[from:] in Python terms, 1-based
Drop(s, n) == SubSeq(s, n + 1, Len(s))
Take(s, n) == SubSeq(s, 1, n)

RECURSIVE Join(_)
\* the string made of the characters of s
Join(s) == IF s = <<>> THEN "" ELSE Head(s) \o Join(Tail(s))

(***************************************************************************)
(* urllib.parse.urlparse, as check_server uses it (scheme, hostname, port) *)
(***************************************************************************)
Digits == {"0", "1", "2", "3", "4", "5", "6", "7", "8", "9"}
LowerLetters == {"a", "c", "f", "h", "l", "p", "s", "t", "x"}
UpperLetters == {"T", "H"}
SchemeChars == LowerLetters \cup UpperLetters \cup Digits \cup {"+", "-", "."}

\* str.lower on one character
LowerChar(c) == CASE c = "T" -> "t" [] c = "H" -> "h" [] OTHER -> c
Lower(s) == [i \in 1..Len(s) |-> LowerChar(s[i])]

DigitVal(c) ==
  CASE c = "0" -> 0 [] c = "1" -> 1 [] c = "2" -> 2 [] c = "3" -> 3
    [] c = "4" -> 4 [] c = "5" -> 5 [] c = "6" -> 6 [] c = "7" -> 7
    [] c = "8" -> 8 [] c = "9" -> 9

RECURSIVE ToInt(_)
\* int(port) for a string of decimal digits
ToInt(s) == IF s = <<>> THEN 0 ELSE 10 * ToInt(Take(s, Len(s) - 1)) + DigitVal(s[Len(s)])

\* the scheme urlsplit cuts off: the text before the first ":" when it is
\* non-empty and made of scheme characters, lowercased; else no scheme
SchemeSplit(url) ==
  LET i == IndexOf(url, ":") IN
  IF i > 1 /\ \A j \in 1..(i-1) : url[j] \in SchemeChars
  THEN [scheme |-> Lower(Take(url, i - 1)), rest |-> Drop(url, i)]
  ELSE [scheme |-> <<>>, rest |-> url]

\* the netloc: what follows "//" up to the first of "/", "?", "#"
Netloc(rest) ==
  IF Len(rest) >= 2 /\ rest[1] = "/" /\ rest[2] = "/"
  THEN LET body == Drop(rest, 2)
           d == IndexOfAny(body, {"/", "?", "#"})
       IN IF d = 0 THEN body ELSE Take(body, d - 1)
  ELSE <<>>

\* urlsplit raises ValueError("Invalid IPv6 URL") on an unbalanced bracket
UnbalancedBrackets(netloc) ==
  \/ "[" \in Range(netloc) /\ "]" \notin Range(netloc)
  \/ "]" \in Range(netloc) /\ "[" \notin Range(netloc)

\* str.partition(c): the text before the first c, and the text after it
Before(s, c) == IF IndexOf(s, c) = 0 THEN s ELSE Take(s, IndexOf(s, c) - 1)
After(s, c) == IF IndexOf(s, c) = 0 THEN <<>> ELSE Drop(s, IndexOf(s, c))

\* netloc.rpartition("@")[2]
HostPort(netloc) == Drop(netloc, LastIndexOf(netloc, "@"))

\* _hostinfo: (hostname, port) texts of a netloc; an empty port text is None
HostInfo(netloc) ==
  IF "[" \in Range(HostPort(netloc))
  THEN [hostname |-> Before(After(HostPort(netloc), "["), "]"),
        port |-> After(After(After(HostPort(netloc), "["), "]"), ":")]
  ELSE [hostname |-> Before(HostPort(netloc), ":"),
        port |-> After(HostPort(netloc), ":")]

\* Python's None as a hostname, and the port value that stands for None
None == "None"
NoPort == -1
ValueError(msg) == [cls |-> "ValueError", msg |-> msg]

\* urlparse(url) with .scheme, .hostname and .port evaluated in the order of
\* lines 127-130: either the three values or the exception that is raised
UrlParse(url) ==
  LET sp == SchemeSplit(url)
      netloc == Netloc(sp.rest)
      hi == HostInfo(netloc)
  IN IF UnbalancedBrackets(netloc)
     THEN [raised |-> TRUE, exc |-> ValueError("Invalid IPv6 URL")]
     ELSE IF hi.port # <<>> /\ \E i \in 1..Len(hi.port) : hi.port[i] \notin Digits
     THEN [raised |-> TRUE,
           exc |-> ValueError("Port could not be cast to integer value as '"
                              \o Join(hi.port) \o "'")]
     ELSE IF hi.port # <<>> /\ ToInt(hi.port) > 65535
     THEN [raised |-> TRUE, exc |-> ValueError("Port out of range 0-65535")]
     ELSE [raised |-> FALSE,
           scheme |-> Join(sp.scheme),
           hostname |-> IF hi.hostname = <<>> THEN None ELSE Join(Lower(hi.hostname)),
           port |-> IF hi.port = <<>> THEN NoPort ELSE ToInt(hi.port)]

\* check_server testing the host only (if not host)
ParseStepHostOnly(url) ==
  LET parsed == UrlParse(url) IN
  IF parsed.raised
  THEN [kind |-> "raise", exc |-> parsed.exc]
  ELSE IF parsed.hostname = None \/ parsed.hostname = ""
  THEN [kind |-> "return", url |-> url, success |-> FALSE, detail |-> "Invalid URL format"]
  ELSE IF parsed.scheme \in {"tcp", "ssl"}
  THEN [kind |-> "dispatch", transport |-> parsed.scheme, host |-> parsed.hostname,
        port |-> parsed.port]
  ELSE [kind |-> "return", url |-> url, success |-> FALSE,
        detail |-> "Unknown protocol: " \o parsed.scheme]

\* check_server testing the scheme before it tests the host and the port
ParseStepSchemeFirst(url) ==
  LET parsed == UrlParse(url) IN
  IF parsed.raised
  THEN [kind |-> "raise", exc |-> parsed.exc]
  ELSE IF parsed.scheme \notin {"tcp", "ssl"}
  THEN [kind |-> "return", url |-> url, success |-> FALSE,
        detail |-> "Unknown protocol: " \o parsed.scheme]
  ELSE IF parsed.hostname = None \/ parsed.hostname = ""
          \/ parsed.port = NoPort \/ parsed.port = 0
  THEN [kind |-> "return", url |-> url, success |-> FALSE, detail |-> "Invalid URL format"]
  ELSE [kind |-> "dispatch", transport |-> parsed.scheme, host |-> parsed.hostname,
        port |-> parsed.port]

\* check_server up to the dispatch (lines 127-140): the exception raised, the
\* failure triple returned early, or the transport probe to call
ParseStep(url) ==
  LET parsed == UrlParse(url) IN
  IF parsed.raised
  THEN [kind |-> "raise", exc |-> parsed.exc]
  ELSE IF parsed.hostname = None \/ parsed.hostname = ""
          \/ parsed.port = NoPort \/ parsed.port = 0
  THEN [kind |-> "return", url |-> url, success |-> FALSE, detail |-> "Invalid URL format"]
  ELSE IF parsed.scheme = "tcp"
  THEN [kind |-> "dispatch", transport |-> "tcp", host |-> parsed.hostname, port |-> parsed.port]
  ELSE IF parsed.scheme = "ssl"
  THEN [kind |-> "dispatch", transport |-> "ssl", host |-> parsed.hostname, port |-> parsed.port]
  ELSE [kind |-> "return", url |-> url, success |-> FALSE,
        detail |-> "Unknown protocol: " \o parsed.scheme]

(***************************************************************************)
(* Exceptions: a class and a message; isinstance follows the class tree of *)
(* the standard library.                                                   *)
(***************************************************************************)
Exc(cls, msg) == [cls |-> cls, msg |-> msg]

Bases(cls) ==
  CASE cls = "TimeoutError" -> {"OSError"}
    [] cls = "ConnectionRefusedError" -> {"ConnectionError"}
    [] cls = "ConnectionResetError" -> {"ConnectionError"}
    [] cls = "ConnectionError" -> {"OSError"}
    [] cls = "gaierror" -> {"OSError"}
    [] cls = "SSLError" -> {"OSError"}
    [] cls = "OSError" -> {"Exception"}
    [] cls = "JSONDecodeError" -> {"ValueError"}
    [] cls = "UnicodeDecodeError" -> {"ValueError"}
    [] cls = "ValueError" -> {"Exception"}
    [] cls = "TypeError" -> {"Exception"}
    [] cls = "Exception" -> {"BaseException"}
    [] OTHER -> {}

RECURSIVE Ancestors(_)
Ancestors(cls) == {cls} \cup UNION {Ancestors(b) : b \in Bases(cls)}

IsInstance(exc, cls) == cls \in Ancestors(exc.cls)

(***************************************************************************)
(* Socket data: sequences of byte tokens. A token is a delimiter, a        *)
(* whitespace byte, a number, null, a quoted JSON string, a letter that is *)
(* no JSON, or a byte that is no UTF-8.                                    *)
(***************************************************************************)
NL == "\n"
SP == " "
BadByte == "0xFF"
Whitespace == {NL, SP}
StringLiterals == {"\"result\"", "\"error\"", "\"id\"", "\"no result\""}

\* the text between the quotes of a string literal, as a sequence of words
StrText(tok) ==
  CASE tok = "\"result\"" -> <<"result">>
    [] tok = "\"error\"" -> <<"error">>
    [] tok = "\"id\"" -> <<"id">>
    [] tok = "\"no result\"" -> <<"no ", "result">>

\* bytes.decode(): UTF-8 text, or UnicodeDecodeError
Decode(bytes) ==
  IF BadByte \in Range(bytes)
  THEN [raised |-> TRUE,
        exc |-> Exc("UnicodeDecodeError", "'utf-8' codec can't decode byte 0xff")]
  ELSE [raised |-> FALSE, text |-> bytes]

RECURSIVE LStrip(_)
LStrip(s) == IF s # <<>> /\ Head(s) \in Whitespace THEN LStrip(Tail(s)) ELSE s
RECURSIVE RStrip(_)
RStrip(s) ==
  IF s # <<>> /\ s[Len(s)] \in Whitespace THEN RStrip(Take(s, Len(s) - 1)) ELSE s
\* str.strip()
Strip(s) == RStrip(LStrip(s))

(***************************************************************************)
(* json.loads on a token sequence: the value, or JSONDecodeError.          *)
(***************************************************************************)
RECURSIVE SkipWs(_, _)
SkipWs(t, i) == IF i <= Len(t) /\ t[i] \in Whitespace THEN SkipWs(t, i + 1) ELSE i

JsonFail(msg) == [ok |-> FALSE, exc |-> Exc("JSONDecodeError", msg)]
JsonOk(val, next) == [ok |-> TRUE, val |-> val, next |-> next]

RECURSIVE ParseValue(_, _)
RECURSIVE ParseMembers(_, _, _)
RECURSIVE ParseElements(_, _, _)

\* after "{" or a ",": "key" : value, then "," or "}"
ParseMembers(t, i, keys) ==
  LET k == SkipWs(t, i) IN
  IF k > Len(t) \/ t[k] \notin StringLiterals
  THEN JsonFail("Expecting property name enclosed in double quotes")
  ELSE LET c == SkipWs(t, k + 1) IN
       IF c > Len(t) \/ t[c] # ":"
       THEN JsonFail("Expecting ':' delimiter")
       ELSE LET v == ParseValue(t, c + 1) IN
            IF ~v.ok THEN v
            ELSE LET e == SkipWs(t, v.next)
                     ks == keys \cup {StrText(t[k])}
                 IN IF e <= Len(t) /\ t[e] = "}"
                    THEN JsonOk([kind |-> "dict", keys |-> ks], e + 1)
                    ELSE IF e <= Len(t) /\ t[e] = ","
                    THEN ParseMembers(t, e + 1, ks)
                    ELSE JsonFail("Expecting ',' delimiter")

\* after "[" or a ",": value, then "," or "]"
ParseElements(t, i, elems) ==
  LET v == ParseValue(t, i) IN
  IF ~v.ok THEN v
  ELSE LET e == SkipWs(t, v.next)
           es == elems \cup {v.val}
       IN IF e <= Len(t) /\ t[e] = "]"
          THEN JsonOk([kind |-> "list", elems |-> es], e + 1)
          ELSE IF e <= Len(t) /\ t[e] = ","
          THEN ParseElements(t, e + 1, es)
          ELSE JsonFail("Expecting ',' delimiter")

ParseValue(t, i) ==
  LET j == SkipWs(t, i) IN
  IF j > Len(t) THEN JsonFail("Expecting value")
  ELSE IF t[j] = "1" THEN JsonOk([kind |-> "int"], j + 1)
  ELSE IF t[j] = "null" THEN JsonOk([kind |-> "NoneType"], j + 1)
  ELSE IF t[j] \in StringLiterals THEN JsonOk([kind |-> "str", text |-> StrText(t[j])], j + 1)
  ELSE IF t[j] = "{"
  THEN LET k == SkipWs(t, j + 1) IN
       IF k <= Len(t) /\ t[k] = "}"
       THEN JsonOk([kind |-> "dict", keys |-> {}], k + 1)
       ELSE ParseMembers(t, j + 1, {})
  ELSE IF t[j] = "["
  THEN LET k == SkipWs(t, j + 1) IN
       IF k <= Len(t) /\ t[k] = "]"
       THEN JsonOk([kind |-> "list", elems |-> {}], k + 1)
       ELSE ParseElements(t, j + 1, {})
  ELSE JsonFail("Expecting value")

JsonLoads(t) ==
  LET v == ParseValue(t, 1) IN
  IF ~v.ok THEN v
  ELSE IF SkipWs(t, v.next) # Len(t) + 1 THEN JsonFail("Extra data")
  ELSE v

\* Python's `word in data`: key of a dict, element of a list, substring of a
\* str; TypeError for a value that is no container
Contains(word, data) ==
  CASE data.kind = "dict" -> [raised |-> FALSE, value |-> <<word>> \in data.keys]
    [] data.kind = "list" ->
         [raised |-> FALSE, value |-> [kind |-> "str", text |-> <<word>>] \in data.elems]
    [] data.kind = "str" -> [raised |-> FALSE, value |-> word \in Range(data.text)]
    [] OTHER ->
         [raised |-> TRUE,
          exc |-> Exc("TypeError", "argument of type '" \o data.kind \o "' is not iterable")]

Returned(success, detail) == [raised |-> FALSE, success |-> success, detail |-> detail]
Raised(exc) == [raised |-> TRUE, exc |-> exc]

\* what the try body does with the bytes read (lines 68-74 and 108-114): the
\* pair it returns, or the exception it raises
ClassifyResponse(response) ==
  LET dec == Decode(response) IN
  IF dec.raised THEN Raised(dec.exc)
  ELSE LET response_str == Strip(dec.text) IN
       IF response_str = <<>> THEN Returned(FALSE, "No valid response")
       ELSE LET data == JsonLoads(response_str) IN
            IF ~data.ok THEN Raised(data.exc)
            ELSE LET r == Contains("result", data.val) IN
                 IF r.raised THEN Raised(r.exc)
                 ELSE IF r.value THEN Returned(TRUE, "OK")
                 ELSE LET e == Contains("error", data.val) IN
                      IF e.raised THEN Raised(e.exc)
                      ELSE IF e.value THEN Returned(TRUE, "OK")
                      ELSE Returned(FALSE, "No valid response")

\* the except clauses of check_tcp_server (lines 75-80), in order
HandleTcp(exc) ==
  IF IsInstance(exc, "TimeoutError") THEN Returned(FALSE, "Timeout")
  ELSE IF IsInstance(exc, "ConnectionRefusedError") THEN Returned(FALSE, "Connection refused")
  ELSE IF IsInstance(exc, "Exception") THEN Returned(FALSE, exc.msg)
  ELSE Raised(exc)

\* check_ssl_server with the generic clause moved above the SSLError clause
\* and the timeout clause below the refusal clause
HandleSslGenericFirst(exc) ==
  IF IsInstance(exc, "ConnectionRefusedError") THEN Returned(FALSE, "Connection refused")
  ELSE IF IsInstance(exc, "Exception") THEN Returned(FALSE, exc.msg)
  ELSE IF IsInstance(exc, "TimeoutError") THEN Returned(FALSE, "Timeout")
  ELSE IF IsInstance(exc, "SSLError") THEN Returned(FALSE, "SSL error: " \o exc.msg)
  ELSE Raised(exc)

\* the except clauses of check_ssl_server (lines 115-122), in order
HandleSsl(exc) ==
  IF IsInstance(exc, "TimeoutError") THEN Returned(FALSE, "Timeout")
  ELSE IF IsInstance(exc, "ConnectionRefusedError") THEN Returned(FALSE, "Connection refused")
  ELSE IF IsInstance(exc, "SSLError") THEN Returned(FALSE, "SSL error: " \o exc.msg)
  ELSE IF IsInstance(exc, "Exception") THEN Returned(FALSE, exc.msg)
  ELSE Raised(exc)

Handle(transport, exc) == IF transport = "ssl" THEN HandleSsl(exc) ELSE HandleTcp(exc)

\* a transport probe's result once the try body has returned or raised
ProbeResult(transport, body) ==
  IF body.raised THEN Handle(transport, body.exc) ELSE body

(***************************************************************************)
(* list(set(rust_servers + ts_servers)) followed by sort(): the distinct   *)
(* URLs in ascending order of their code points.                           *)
(***************************************************************************)
Code(c) ==
  CASE c = "/" -> 47 [] c \in Digits -> 48 + DigitVal(c) [] c = ":" -> 58
    [] c = "@" -> 64 [] c = "H" -> 72 [] c = "T" -> 84 [] c = "[" -> 91
    [] c = "a" -> 97 [] c = "c" -> 99 [] c = "f" -> 102 [] c = "h" -> 104
    [] c = "l" -> 108 [] c = "p" -> 112 [] c = "s" -> 115 [] c = "t" -> 116
    [] c = "x" -> 120

\* a < b for two strings, as Python compares them
LexLess(a, b) ==
  \/ Len(a) < Len(b) /\ Take(b, Len(a)) = a
  \/ \E i \in 1..Len(a) :
       /\ i <= Len(b)
       /\ Take(a, i - 1) = Take(b, i - 1)
       /\ Code(a[i]) < Code(b[i])

RECURSIVE SortSetDescending(_)
\* a sort that puts the greatest string first
SortSetDescending(S) ==
  IF S = {} THEN <<>>
  ELSE LET m == CHOOSE u \in S : \A v \in S \ {u} : LexLess(v, u)
       IN <<m>> \o SortSetDescending(S \ {m})

RECURSIVE SortSet(_)
\* list.sort() of distinct strings
SortSet(S) ==
  IF S = {} THEN <<>>
  ELSE LET m == CHOOSE u \in S : \A v \in S \ {u} : LexLess(u, v)
       IN <<m>> \o SortSet(S \ {m})

\* a list that is sorted without set(): duplicates stay
DeduplicateKeepsDuplicates(servers) == SortSeq(servers, LexLess)

\* lines 165-166
Deduplicate(servers) == SortSet(Range(servers))

(***************************************************************************)
(* The servers' side of a connection: how the peer answers the connect,    *)
(* the chunks recv returns in turn, and what it does once they are sent.   *)
(***************************************************************************)
Peer(connect, chunks, end) == [connect |-> connect, chunks |-> chunks, end |-> end]
NoPeer == Peer("", <<>>, "")

ReplyResult == <<"{", "\"result\"", ":", "1", "}", NL>>
ReplyError == <<"{", "\"id\"", ":", "1", ",", "\"error\"", ":", "{", "}", "}", NL>>

\* peers that answer the connect without accepting it, or fail the handshake
DeafPeers ==
  { Peer(c, <<>>, "close") : c \in {"blackhole", "refuse", "unresolved", "no_tls", "tls_stall"} }

\* peers that accept and send one reply in one chunk, then close
ReplyingPeers ==
  { Peer("accept", <<r>>, "close") :
      r \in { ReplyResult, ReplyError,
              <<"{", "}", NL>>, <<"{", "\"id\"", ":", "1", "}", NL>>,
              <<"\"result\"", NL>>, <<"\"no result\"", NL>>, <<"\"id\"", NL>>,
              <<"[", "\"result\"", "]", NL>>, <<"[", "\"error\"", "]", NL>>,
              <<"[", "]", NL>>, <<"[", "1", ",", "\"id\"", "]", NL>>,
              <<"1", NL>>, <<"null", NL>>, <<"x", NL>>, <<BadByte, NL>>, <<SP, NL>>,
              <<"{", "\"result\"", ":", "1", "}", NL, "{", "}">>,
              <<"{", "\"result\"", ":", "1", "}">>, <<"{", "\"result\"">> } }

\* peers that accept and then send in pieces, nothing, or without end
SlowPeers ==
  { Peer("accept", <<>>, "close"), Peer("accept", <<>>, "silent"),
    Peer("accept", <<>>, "reset"), Peer("accept", <<>>, "trickle"),
    Peer("accept", <<<<"{", "\"result\"">>, <<":", "1", "}", NL>>>>, "close"),
    Peer("accept", <<<<"{", "\"result\"">>>>, "silent"),
    Peer("accept", <<<<"x">>>>, "trickle") }

AllPeers == DeafPeers \cup ReplyingPeers \cup SlowPeers

\* the peers of a run over several servers
RunPeers ==
  { Peer("accept", <<ReplyResult>>, "close"), Peer("blackhole", <<>>, "close"),
    Peer("accept", <<>>, "trickle") }

UrlTcp == <<"t", "c", "p", ":", "/", "/", "h", ":", "5", "0">>
UrlSsl == <<"s", "s", "l", ":", "/", "/", "h", ":", "5", "0">>
UrlBadPort == <<"t", "c", "p", ":", "/", "/", "h", ":", "x">>
UrlTcp2 == <<"t", "c", "p", ":", "/", "/", "h", ":", "5", "1">>
UrlNoPort == <<"t", "c", "p", ":", "/", "/", "h">>

\* the URLs of a run over several servers
RunUrls == {UrlTcp, UrlSsl, UrlNoPort, UrlBadPort}

\* the URLs of a run over one server
ProbeUrls ==
  RunUrls \cup
  { UrlTcp2,
    <<"t", "c", "p", ":", "/", "/", "h", ":", "7", "0", "0", "0", "0">>,
    <<"t", "c", "p", ":", "/", "/", "h", ":", "6", "5", "5", "3", "5">>,
    <<"t", "c", "p", ":", "/", "/", "h", ":", "0">>,
    <<"t", "c", "p", ":", "/", "/">>,
    <<"t", "c", "p", ":", "/", "/", "h", ":">>,
    <<"t", "c", "p", ":", "/", "/", ":", "5", "0">>,
    <<"f", "t", "p", ":", "/", "/", "h", ":", "2", "1">>,
    <<"f", "t", "p", ":", "/", "/", "h">>,
    <<"t", "c", "p", ":", "/", "/", "[", "h", ":", "1">>,
    <<"h", ":", "5", "0">>,
    <<"T", "c", "p", ":", "/", "/", "H", ":", "5", "0">>,
    <<"s", "s", "l", ":", "/", "/", "a", "@", "h", ":", "5", "0">> }

\* check_server's parsing step for every URL of the model, computed once
Parsed == [u \in ProbeUrls |-> ParseStep(u)]

RECURSIVE Received(_, _)
\* the bytes of the first k chunks
Received(chunks, k) == IF k = 0 THEN <<>> ELSE Received(chunks, k - 1) \o chunks[k]

\* the buffers a read loop can end with
Replies == UNION {{Received(p.chunks, k) : k \in 0..Len(p.chunks)} : p \in AllPeers}

\* the classification of each of them, computed once
Classified == [r \in Replies |-> ClassifyResponse(r)]

(***************************************************************************)
(* The state of a run.                                                     *)
(***************************************************************************)
VARIABLES
  input,            \* rust_servers + ts_servers (line 165)
  peers,            \* which servers this run meets: "any" or "few"
  all_servers,      \* the deduplicated, sorted list (lines 165-166)
  mainpc,           \* where main() is
  fut,              \* the futures, in submission order (line 177)
  queue,            \* the executor's work queue: indices into fut
  workers,          \* the pool's threads, each idle or inside check_server
  waiting,          \* as_completed has installed its waiter
  snapshot,         \* futures as_completed found finished when it started
  finished_futures, \* the waiter's list, in completion order
  working,          \* line 173
  broken,           \* line 174
  exit_status,      \* the status the process ends with
  started,          \* history: the URLs whose task began, in order
  completedOrder,   \* history: future indices in completion order
  consumedOrder,    \* history: future indices in the order main() took them
  early,            \* history: the futures as_completed found finished at its start
  probe,            \* history, per future: what happened inside its probe
  dequeued,         \* history: future indices in the order threads took them
  lookup            \* what lines 201-206 report about new_server

vars == <<input, peers, all_servers, mainpc, fut, queue, workers, waiting, snapshot,
          finished_futures, working, broken, exit_status, started, completedOrder,
          consumedOrder, early, probe, dequeued, lookup>>

\* a pool that is one thread wider than max_workers
WorkersOneMore == 1..(MaxWorkers + 1)

\* line 176: the pool's threads
Workers == 1..MaxWorkers

NoExc == Exc("", "")
NoOutcome == [raised |-> FALSE, url |-> <<>>, success |-> FALSE, detail |-> ""]
NoProbe == [transport |-> "", host |-> "", port |-> NoPort, exc |-> NoExc,
            response |-> <<>>, classified |-> FALSE, eof |-> FALSE, lateRecv |-> FALSE,
            connects |-> 0, opened |-> 0, closed |-> 0]
NotExited == -1
NoLookup == ""

Idle == [pc |-> "idle", fi |-> 0, url |-> <<>>, transport |-> "", response |-> <<>>,
         chunk |-> <<>>, peer |-> NoPeer, pos |-> 0]

\* what the servers of this run may do
PeerSet == IF peers = "any" THEN AllPeers ELSE RunPeers

\* probes in flight: tasks started and not yet completed
InFlight == Cardinality({w \in Workers : workers[w].pc # "idle"})

\* the list q in reverse order
Reverse(q) == [k \in 1..Len(q) |-> q[Len(q) + 1 - k]]

\* the list q followed by j more occurrences of its first element
Repeat(q, j) == q \o [k \in 1..j |-> q[1]]

\* the lists of a run over several servers: at most MaxInput entries, the
\* URLs in descending order, the first of them repeated or not
RunLists ==
  {<<>>} \cup
  { q \in { Repeat(Reverse(SortSet(S)), j) : S \in SUBSET RunUrls \ {{}}, j \in 0..MaxInput } :
      Len(q) <= MaxInput }

\* a run over one server against every peer, or over several against a few
Init ==
  /\ \/ input \in {<<u>> : u \in ProbeUrls} /\ peers = "any"
     \/ input \in RunLists /\ peers = "few"
  /\ all_servers = <<>>
  /\ mainpc = "dedup"
  /\ fut = <<>>
  /\ queue = <<>>
  /\ workers = [w \in Workers |-> Idle]
  /\ waiting = FALSE
  /\ snapshot = {}
  /\ finished_futures = <<>>
  /\ working = <<>>
  /\ broken = <<>>
  /\ exit_status = NotExited
  /\ started = <<>>
  /\ completedOrder = <<>>
  /\ consumedOrder = <<>>
  /\ early = {}
  /\ probe = <<>>
  /\ dequeued = <<>>
  /\ lookup = NoLookup

(***************************************************************************)
(* main()                                                                  *)
(***************************************************************************)
\* lines 164-174
Dedup ==
  /\ mainpc = "dedup"
  /\ all_servers' = Deduplicate(input)
  /\ mainpc' = "submit"
  /\ UNCHANGED <<input, peers, lookup, dequeued, fut, queue, workers, waiting, snapshot, finished_futures,
                 working, broken, exit_status, started, completedOrder, consumedOrder,
                 early, probe>>

\* line 177, one executor.submit(check_server, url)
Submit ==
  /\ mainpc = "submit"
  /\ Len(fut) < Len(all_servers)
  /\ fut' = Append(fut, [url |-> all_servers[Len(fut) + 1], state |-> "pending",
                         outcome |-> NoOutcome])
  /\ queue' = Append(queue, Len(fut) + 1)
  /\ probe' = Append(probe, NoProbe)
  /\ UNCHANGED <<input, peers, lookup, dequeued, all_servers, mainpc, workers, waiting, snapshot,
                 finished_futures, working, broken, exit_status, started, completedOrder,
                 consumedOrder, early>>

\* line 179, the start of as_completed(futures): the futures already finished
\* are set aside (as a set) and the waiter is installed on the others
AsCompleted ==
  /\ mainpc = "submit"
  /\ Len(fut) = Len(all_servers)
  /\ snapshot' = {i \in 1..Len(fut) : fut[i].state = "finished"}
  /\ early' = {i \in 1..Len(fut) : fut[i].state = "finished"}
  /\ waiting' = TRUE
  /\ mainpc' = "collect"
  /\ UNCHANGED <<input, peers, lookup, dequeued, all_servers, fut, queue, workers, finished_futures,
                 working, broken, exit_status, started, completedOrder, consumedOrder,
                 probe>>

\* as_completed taking any future of the waiter's list, not its head
YieldableAnyOrder ==
  IF snapshot # {} THEN snapshot ELSE Range(finished_futures)

\* the future as_completed yields next: any of those set aside at its start,
\* then the waiter's list from its head
Yieldable ==
  IF snapshot # {} THEN snapshot
  ELSE IF finished_futures # <<>> THEN {Head(finished_futures)}
  ELSE {}

\* a loop that pairs the k-th outcome it takes with the k-th URL of the list
ConsumePairsByPosition ==
  /\ mainpc = "collect"
  /\ \E i \in Yieldable :
       /\ snapshot' = snapshot \ {i}
       /\ finished_futures' = IF snapshot # {} THEN finished_futures
                              ELSE Tail(finished_futures)
       /\ consumedOrder' = Append(consumedOrder, i)
       /\ IF fut[i].outcome.raised
          THEN /\ mainpc' = "raised"
               /\ UNCHANGED <<working, broken>>
          ELSE /\ mainpc' = mainpc
               /\ IF fut[i].outcome.success
                  THEN /\ working' = Append(working, all_servers[Len(consumedOrder) + 1])
                       /\ broken' = broken
                  ELSE /\ broken' = Append(broken, <<all_servers[Len(consumedOrder) + 1],
                                                    fut[i].outcome.detail>>)
                       /\ working' = working
  /\ UNCHANGED <<input, peers, lookup, dequeued, all_servers, fut, queue, workers, waiting, exit_status,
                 started, completedOrder, probe, early>>

\* a loop without the else of line 187: a working URL is also listed as broken
ConsumeWithoutElse ==
  /\ mainpc = "collect"
  /\ \E i \in Yieldable :
       /\ snapshot' = snapshot \ {i}
       /\ finished_futures' = IF snapshot # {} THEN finished_futures
                              ELSE Tail(finished_futures)
       /\ consumedOrder' = Append(consumedOrder, i)
       /\ IF fut[i].outcome.raised
          THEN /\ mainpc' = "raised"
               /\ UNCHANGED <<working, broken>>
          ELSE /\ mainpc' = mainpc
               /\ IF fut[i].outcome.success
                  THEN /\ working' = Append(working, fut[i].outcome.url)
                       /\ broken' = Append(broken, <<fut[i].outcome.url,
                                                    fut[i].outcome.detail>>)
                  ELSE /\ broken' = Append(broken, <<fut[i].outcome.url,
                                                    fut[i].outcome.detail>>)
                       /\ working' = working
  /\ UNCHANGED <<input, peers, lookup, dequeued, all_servers, fut, queue, workers, waiting, exit_status,
                 started, completedOrder, probe, early>>

\* lines 179-188, one iteration: take the next future, then its result
Consume ==
  /\ mainpc = "collect"
  /\ \E i \in Yieldable :
       /\ snapshot' = snapshot \ {i}
       /\ finished_futures' = IF snapshot # {} THEN finished_futures
                              ELSE Tail(finished_futures)
       /\ consumedOrder' = Append(consumedOrder, i)
       /\ IF fut[i].outcome.raised
          THEN /\ mainpc' = "raised"
               /\ UNCHANGED <<working, broken>>
          ELSE /\ mainpc' = mainpc
               /\ IF fut[i].outcome.success
                  THEN /\ working' = Append(working, fut[i].outcome.url)
                       /\ broken' = broken
                  ELSE /\ broken' = Append(broken, <<fut[i].outcome.url,
                                                    fut[i].outcome.detail>>)
                       /\ working' = working
  /\ UNCHANGED <<input, peers, lookup, dequeued, all_servers, fut, queue, workers, waiting, exit_status,
                 started, completedOrder, probe, early>>

\* as_completed is exhausted and the with block ends (line 188 to 190)
ExitPool ==
  /\ mainpc = "collect"
  /\ Len(consumedOrder) = Len(fut)
  /\ mainpc' = "summary"
  /\ UNCHANGED <<input, peers, lookup, dequeued, all_servers, fut, queue, workers, waiting, snapshot,
                 finished_futures, working, broken, exit_status, started, completedOrder,
                 consumedOrder, probe, early>>

\* line 202: the server the report singles out
new_server == UrlTcp

\* a lookup that does not ask whether the server is in the list
LookupWithoutMembership(url) ==
  IF url \in Range(working) THEN "WORKING" ELSE "BROKEN"

\* lines 203-206: what is printed about one server, NoLookup for nothing
Lookup(url) ==
  IF url \in Range(all_servers)
  THEN IF url \in Range(working) THEN "WORKING" ELSE "BROKEN"
  ELSE NoLookup

\* a script that ends with status 0 whatever the report holds
SummaryExitsZero ==
  /\ mainpc = "summary"
  /\ lookup' = Lookup(new_server)
  /\ exit_status' = 0
  /\ mainpc' = "exited"
  /\ UNCHANGED <<input, peers, dequeued, all_servers, fut, queue, workers, waiting, snapshot,
                 finished_futures, working, broken, started, completedOrder,
                 consumedOrder, probe, early>>

\* lines 190-208
Summary ==
  /\ mainpc = "summary"
  /\ lookup' = Lookup(new_server)
  /\ exit_status' = IF Len(broken) = 0 THEN 0 ELSE 1
  /\ mainpc' = "exited"
  /\ UNCHANGED <<input, peers, dequeued, all_servers, fut, queue, workers, waiting, snapshot,
                 finished_futures, working, broken, started, completedOrder,
                 consumedOrder, probe, early>>

\* future.result() re-raised the task's exception (line 180): the with block
\* waits for the pool to drain, then the exception ends the process
Unwind ==
  /\ mainpc = "raised"
  /\ queue = <<>>
  /\ InFlight = 0
  /\ exit_status' = 1
  /\ mainpc' = "aborted"
  /\ UNCHANGED <<input, peers, lookup, dequeued, all_servers, fut, queue, workers, waiting, snapshot,
                 finished_futures, working, broken, started, completedOrder,
                 consumedOrder, probe, early>>

(***************************************************************************)
(* The pool's threads                                                      *)
(***************************************************************************)
\* check_server returning the normalised URL in place of the raw one
TaskOutcomeNormalised(url, r) ==
  IF r.raised THEN [raised |-> TRUE, exc |-> r.exc]
  ELSE [raised |-> FALSE, url |-> Lower(url), success |-> r.success, detail |-> r.detail]

\* line 142, and an exception leaving check_server: what the future holds
TaskOutcome(url, r) ==
  IF r.raised THEN [raised |-> TRUE, exc |-> r.exc]
  ELSE [raised |-> FALSE, url |-> url, success |-> r.success, detail |-> r.detail]

\* the task of future fi ends on thread w: the future is finished and, when
\* as_completed waits, added to the waiter's list
Complete(w, fi, outcome) ==
  /\ fut' = [fut EXCEPT ![fi] = [@ EXCEPT !.state = "finished", !.outcome = outcome]]
  /\ workers' = [workers EXCEPT ![w] = Idle]
  /\ completedOrder' = Append(completedOrder, fi)
  /\ finished_futures' = IF waiting THEN Append(finished_futures, fi)
                         ELSE finished_futures

\* an idle thread takes the next work item from the executor's queue
Dequeue(w) ==
  /\ workers[w].pc = "idle"
  /\ queue # <<>>
  /\ workers' = [workers EXCEPT ![w] = [Idle EXCEPT !.pc = "taken", !.fi = Head(queue),
                                                    !.url = fut[Head(queue)].url]]
  /\ queue' = Tail(queue)
  /\ dequeued' = Append(dequeued, Head(queue))
  /\ UNCHANGED <<input, peers, lookup, all_servers, mainpc, fut, waiting, snapshot,
                 finished_futures, working, broken, exit_status, started, completedOrder,
                 consumedOrder, early, probe>>

\* the thread runs its work item: check_server begins and runs up to the
\* call of the transport probe (lines 125-140)
Start(w) ==
  /\ workers[w].pc = "taken"
  /\ LET fi == workers[w].fi
         url == fut[fi].url
         step == Parsed[url]
     IN /\ started' = Append(started, url)
        /\ IF step.kind = "dispatch"
           THEN /\ workers' = [workers EXCEPT ![w] =
                                 [Idle EXCEPT !.pc = "connect", !.fi = fi, !.url = url,
                                              !.transport = step.transport]]
                /\ fut' = [fut EXCEPT ![fi].state = "running"]
                /\ probe' = [probe EXCEPT ![fi].transport = step.transport,
                                          ![fi].host = step.host,
                                          ![fi].port = step.port]
                /\ UNCHANGED <<completedOrder, finished_futures>>
           ELSE /\ Complete(w, fi, IF step.kind = "raise" THEN TaskOutcome(url, Raised(step.exc))
                                   ELSE TaskOutcome(step.url, Returned(step.success, step.detail)))
                /\ probe' = probe
  /\ UNCHANGED <<input, peers, lookup, dequeued, all_servers, mainpc, queue, waiting, snapshot,
                 working, broken, exit_status, consumedOrder, early>>

\* what connect (and, for ssl, the handshake in it) raises against a peer
ConnectError(transport, p) ==
  CASE p.connect = "blackhole" -> Exc("TimeoutError", "timed out")
    [] p.connect = "refuse" -> Exc("ConnectionRefusedError", "[Errno 111] Connection refused")
    [] p.connect = "unresolved" -> Exc("gaierror", "[Errno -2] Name or service not known")
    [] p.connect = "no_tls" /\ transport = "ssl" ->
         Exc("SSLError", "[SSL: WRONG_VERSION_NUMBER] wrong version number")
    [] p.connect = "tls_stall" /\ transport = "ssl" ->
         Exc("TimeoutError", "_ssl.c: The handshake operation timed out")
    [] OTHER -> NoExc

\* a with block that leaves its socket open when an exception passes through
CloseSocketUnlessRaised(pr, exc) ==
  IF exc = NoExc THEN [pr EXCEPT !.closed = @ + 1] ELSE pr

\* lines 54 and 93-95: the with block is left, by return or by exception exc,
\* and closes its socket
CloseSocket(pr, exc) == [pr EXCEPT !.closed = @ + 1]

\* lines 54-59 and 93-99: socket, settimeout, connect, sendall
Connect(w) ==
  /\ workers[w].pc = "connect"
  /\ \E p \in PeerSet :
       LET wk == workers[w]
           exc == ConnectError(wk.transport, p)
       IN IF exc = NoExc
          THEN /\ workers' = [workers EXCEPT ![w] = [wk EXCEPT !.pc = "recv", !.peer = p]]
               /\ probe' = [probe EXCEPT ![wk.fi] =
                             [@ EXCEPT !.opened = @ + 1, !.connects = @ + 1]]
               /\ UNCHANGED <<fut, completedOrder, finished_futures>>
          ELSE /\ Complete(w, wk.fi, TaskOutcome(wk.url, Handle(wk.transport, exc)))
               /\ probe' = [probe EXCEPT ![wk.fi] =
                             CloseSocket([@ EXCEPT !.opened = @ + 1, !.connects = @ + 1,
                                                   !.exc = exc], exc)]
  /\ UNCHANGED <<input, peers, lookup, dequeued, all_servers, mainpc, queue, waiting, snapshot, working,
                 broken, exit_status, started, consumedOrder, early>>

Chunk(bytes) == [raised |-> FALSE, chunk |-> bytes]

\* what recv returns or raises: the peer's next chunk, then its end
RecvResult(p, pos) ==
  IF pos < Len(p.chunks) THEN Chunk(p.chunks[pos + 1])
  ELSE CASE p.end = "close" -> Chunk(<<>>)
         [] p.end = "trickle" -> Chunk(<<"x">>)
         [] p.end = "reset" ->
              Raised(Exc("ConnectionResetError", "[Errno 104] Connection reset by peer"))
         [] OTHER -> Raised(Exc("TimeoutError", "timed out"))

\* the buffer of thread w holds a newline, or its peer was seen to close
BufferComplete(w) ==
  NL \in Range(workers[w].response) \/ probe[workers[w].fi].eof

\* lines 61 and 101: chunk = recv(4096)
Recv(w) ==
  /\ workers[w].pc = "recv"
  /\ LET wk == workers[w]
         r == RecvResult(wk.peer, wk.pos)
     IN IF r.raised
        THEN /\ Complete(w, wk.fi, TaskOutcome(wk.url, Handle(wk.transport, r.exc)))
             /\ probe' = [probe EXCEPT ![wk.fi] =
                           CloseSocket([@ EXCEPT !.exc = r.exc, !.response = wk.response,
                                                 !.lateRecv = @ \/ BufferComplete(w)],
                                       r.exc)]
        ELSE /\ workers' = [workers EXCEPT ![w] =
                              [wk EXCEPT !.pc = "loop", !.chunk = r.chunk,
                                         !.pos = IF @ < Len(wk.peer.chunks) THEN @ + 1 ELSE @]]
             /\ probe' = [probe EXCEPT ![wk.fi].lateRecv = @ \/ BufferComplete(w)]
             /\ UNCHANGED <<fut, completedOrder, finished_futures>>
  /\ UNCHANGED <<input, peers, lookup, dequeued, all_servers, mainpc, queue, waiting, snapshot, working,
                 broken, exit_status, started, consumedOrder, early>>

\* response += chunk; of a peer that sends without end only the first
\* MaxResp bytes are kept
Accumulate(wk) ==
  IF /\ wk.peer.end = "trickle"
     /\ wk.pos = Len(wk.peer.chunks)
     /\ Len(wk.response) >= MaxResp
  THEN wk.response
  ELSE wk.response \o wk.chunk

\* a read loop that is left only when the peer closes
LoopEndsOnCloseOnly(wk) == wk.chunk = <<>>

\* the read loop is left: on an empty chunk, or on a newline in the buffer
LoopEnds(wk) == wk.chunk = <<>> \/ NL \in Range(Accumulate(wk))

\* lines 62-74 and 102-114: the rest of the loop body and, when the loop is
\* left, the classification of the response
Loop(w) ==
  /\ workers[w].pc = "loop"
  /\ LET wk == workers[w]
         response == IF wk.chunk = <<>> THEN wk.response ELSE Accumulate(wk)
     IN IF LoopEnds(wk)
        THEN LET body == Classified[response] IN
             /\ Complete(w, wk.fi, TaskOutcome(wk.url, ProbeResult(wk.transport, body)))
             /\ probe' = [probe EXCEPT ![wk.fi] =
                           CloseSocket([@ EXCEPT !.response = response, !.classified = TRUE,
                                                 !.eof = (wk.chunk = <<>>),
                                                 !.exc = IF body.raised THEN body.exc
                                                         ELSE NoExc],
                                       IF body.raised THEN body.exc ELSE NoExc)]
        ELSE /\ workers' = [workers EXCEPT ![w] =
                              [wk EXCEPT !.pc = "recv", !.response = response,
                                         !.chunk = <<>>]]
             /\ probe' = [probe EXCEPT ![wk.fi].eof = @ \/ wk.chunk = <<>>]
             /\ UNCHANGED <<fut, completedOrder, finished_futures>>
  /\ UNCHANGED <<input, peers, lookup, dequeued, all_servers, mainpc, queue, waiting, snapshot, working,
                 broken, exit_status, started, consumedOrder, early>>

\* a pool in which only the first thread takes work from the queue
WorkerFirstTakesAll(w) ==
  (w = 1 /\ Dequeue(w)) \/ Start(w) \/ Connect(w) \/ Recv(w) \/ Loop(w)

\* one step of a pool thread
Worker(w) == Dequeue(w) \/ Start(w) \/ Connect(w) \/ Recv(w) \/ Loop(w)

Next ==
  \/ Dedup
  \/ Submit
  \/ AsCompleted
  \/ Consume
  \/ ExitPool
  \/ Summary
  \/ Unwind
  \/ \E w \in Workers : Worker(w)

Spec == Init /\ [][Next]_vars

(***************************************************************************)
(* Fairness: the main thread and every pool thread keep being scheduled.   *)
(***************************************************************************)
Main == Dedup \/ Submit \/ AsCompleted \/ Consume \/ ExitPool \/ Summary \/ Unwind

FairSpec == Spec /\ WF_vars(Main) /\ \A w \in Workers : WF_vars(Worker(w))

(***************************************************************************)
(* Properties                                                              *)
(***************************************************************************)
Count(q, x) == Cardinality({i \in 1..Len(q) : q[i] = x})
NoDuplicates(q) == \A i, j \in 1..Len(q) : q[i] = q[j] => i = j
IsPrefix(a, b) == Len(a) <= Len(b) /\ Take(b, Len(a)) = a

WorkingUrls == Range(working)
BrokenUrlSeq == [i \in 1..Len(broken) |-> broken[i][1]]
BrokenUrls == Range(BrokenUrlSeq)
AtSummary == mainpc \in {"summary", "exited"}
Finished(i) == i <= Len(fut) /\ fut[i].state = "finished"

\* C1: working and broken are always disjoint and hold only URLs of the
\* input; at the summary they partition the deduplicated input, neither list
\* repeats a URL, and len(working) + len(broken) is the number of distinct
\* input URLs.
C1_Partition ==
  /\ WorkingUrls \cap BrokenUrls = {}
  /\ WorkingUrls \cup BrokenUrls \subseteq Range(input)
  /\ AtSummary =>
       /\ WorkingUrls \cup BrokenUrls = Range(input)
       /\ NoDuplicates(working)
       /\ NoDuplicates(BrokenUrlSeq)
       /\ Len(working) + Len(broken) = Cardinality(Range(input))

\* a summary with both partitions filled, from an input that repeats a URL
C1_Witness ==
  /\ mainpc = "summary"
  /\ working # <<>>
  /\ broken # <<>>
  /\ Len(input) > Cardinality(Range(input))

\* C2: every task ends in an outcome (url, success, detail), never in an
\* exception, so main() never leaves its loop through future.result().
C2_NoFault ==
  /\ \A i \in 1..Len(fut) : Finished(i) => ~fut[i].outcome.raised
  /\ mainpc \notin {"raised", "aborted"}

\* C3: at most max_workers probes are started, or taken by a thread, and not
\* yet completed, and a busy thread holds exactly one task, pending until
\* check_server begins and running then, that no other thread holds.
C3_Bounded ==
  /\ Len(started) - Len(completedOrder) <= MaxWorkers
  /\ Len(dequeued) - Len(completedOrder) <= MaxWorkers
  /\ Cardinality({i \in 1..Len(fut) : fut[i].state = "running"}) <= MaxWorkers
  /\ \A w \in DOMAIN workers :
       workers[w].pc # "idle" =>
         /\ fut[workers[w].fi].state = IF workers[w].pc = "taken" THEN "pending" ELSE "running"
         /\ \A v \in DOMAIN workers : workers[v].fi = workers[w].fi => v = w

\* the pool is full while an endpoint is still queued
C3_Witness ==
  /\ Len(all_servers) > MaxWorkers
  /\ Len(started) - Len(completedOrder) = MaxWorkers
  /\ queue # <<>>

LateOnly(q) == LET isLate(i) == i \notin early IN SelectSeq(q, isLate)

C5_ProbedOnce ==
  /\ \A u \in Range(input) : Count(started, u) <= 1
  /\ Range(started) \subseteq Range(input)
  /\ mainpc \in {"summary", "exited", "aborted"} =>
       \A u \in Range(input) : Count(started, u) = 1
  /\ AtSummary =>
       \A u \in Range(input) : Count(working, u) + Count(BrokenUrlSeq, u) = 1

\* a summary after an input that holds the same URL three times
C5_Witness ==
  /\ mainpc = "summary"
  /\ \E u \in Range(input) : Count(input, u) = 3 /\ Count(started, u) = 1

\* the tasks that ended in check_server before any transport probe was called
EndedInParsing(i) == Finished(i) /\ probe[i].transport = ""

\* C6: the parsing step of check_server never raises: a task that ends there
\* returns the failure triple (url, False, detail) with url the input string.
C6_ParseNeverRaises ==
  \A i \in 1..Len(fut) :
    EndedInParsing(i) =>
      /\ ~fut[i].outcome.raised
      /\ fut[i].outcome.url = fut[i].url
      /\ ~fut[i].outcome.success

\* the reply read is a JSON object with the key result or the key error
IsObjectWithField(response) ==
  /\ ~Decode(response).raised
  /\ Strip(response) # <<>>
  /\ JsonLoads(Strip(response)).ok
  /\ JsonLoads(Strip(response)).val.kind = "dict"
  /\ JsonLoads(Strip(response)).val.keys \cap {<<"result">>, <<"error">>} # {}

\* C7: a probe whose read loop ended returns (True, "OK") exactly when the
\* reply is a JSON object that has the key result or the key error.
C7_SuccessIffObject ==
  \A i \in 1..Len(fut) :
    Finished(i) /\ probe[i].classified =>
      /\ ~fut[i].outcome.raised
      /\ fut[i].outcome.success <=> IsObjectWithField(probe[i].response)
      /\ fut[i].outcome.success => fut[i].outcome.detail = "OK"

\* the words result and error occur nowhere in a parsed value
HasNeitherWord(val) ==
  CASE val.kind = "dict" -> val.keys \cap {<<"result">>, <<"error">>} = {}
    [] val.kind = "list" ->
         \A e \in val.elems : e.kind = "str" => Range(e.text) \cap {"result", "error"} = {}
    [] val.kind = "str" -> Range(val.text) \cap {"result", "error"} = {}
    [] OTHER -> TRUE

\* the reply is empty after stripping, is no JSON, or is JSON without the two
\* fields
IsInvalidReply(response) ==
  \/ Decode(response).raised
  \/ Strip(response) = <<>>
  \/ ~JsonLoads(Strip(response)).ok
  \/ HasNeitherWord(JsonLoads(Strip(response)).val)

\* C8: a probe whose exchange ended without an I/O error on a reply that is
\* empty, is no JSON or has neither field returns (False, "No valid response").
C8_NoValidResponse ==
  \A i \in 1..Len(fut) :
    Finished(i) /\ probe[i].classified /\ IsInvalidReply(probe[i].response) =>
      /\ ~fut[i].outcome.raised
      /\ ~fut[i].outcome.success
      /\ fut[i].outcome.detail = "No valid response"

\* the detail the claimed priority order gives an exception
DetailFor(transport, exc) ==
  IF exc.cls = "TimeoutError" THEN "Timeout"
  ELSE IF exc.cls = "ConnectionRefusedError" THEN "Connection refused"
  ELSE IF transport = "ssl" /\ exc.cls = "SSLError" THEN "SSL error: " \o exc.msg
  ELSE exc.msg

\* C9: an exception raised inside a probe never leaves it: the probe returns
\* (False, detail) with detail "Timeout" for a timeout, else "Connection
\* refused" for a refusal, else "SSL error: <message>" for a TLS failure of
\* the encrypted transport, else the message itself.
C9_Classified ==
  \A i \in 1..Len(fut) :
    Finished(i) /\ probe[i].exc # NoExc =>
      /\ ~fut[i].outcome.raised
      /\ ~fut[i].outcome.success
      /\ fut[i].outcome.detail = DetailFor(probe[i].transport, probe[i].exc)

\* an encrypted probe has ended on a handshake failure
C9_Witness ==
  \E i \in 1..Len(fut) :
    /\ Finished(i)
    /\ probe[i].transport = "ssl"
    /\ probe[i].exc.cls = "SSLError"
    /\ fut[i].outcome.detail = "SSL error: [SSL: WRONG_VERSION_NUMBER] wrong version number"

\* C10: every run terminates: whatever the peers do, every probe completes
\* and main() reaches the end of the script.
C10_Terminates == <>(mainpc \in {"exited", "aborted"})

\* a probe that will never complete: its peer sends bytes without end
Hung(w) ==
  /\ workers[w].pc \in {"recv", "loop"}
  /\ workers[w].peer.end = "trickle"
  /\ Len(workers[w].response) = MaxResp

\* an endpoint is queued while a thread is free, or is taken and not started
StartDue ==
  \/ queue # <<>> /\ InFlight < MaxWorkers
  \/ \E w \in Workers : workers[w].pc = "taken"

\* a completed outcome waits for main(), which has not been ended by a raise
ConsumeDue ==
  /\ Range(completedOrder) \ Range(consumedOrder) # {}
  /\ mainpc \notin {"raised", "aborted"}

\* C11: an endpoint that is queued while fewer than max_workers probes are in
\* flight does not stay queued: it is started, whatever the probes in flight
\* do; and a completed outcome does not stay unconsumed, however many probes
\* hang, unless main() was ended by a raised outcome.
C11_WorkConserving == []<>(~StartDue) /\ []<>(~ConsumeDue)

\* while one probe hangs, an endpoint submitted after it has been started,
\* has completed and has been consumed
C11_Witness ==
  \E w \in Workers :
    /\ Hung(w)
    /\ \E i \in Range(consumedOrder) : i > workers[w].fi

\* scheme, hostname and port of every URL of the model, computed once
Components == [u \in ProbeUrls |-> UrlParse(u)]

\* the (success, detail) the transport probe of future i returned
ProbeReturn(i) ==
  IF probe[i].classified
  THEN ProbeResult(probe[i].transport, Classified[probe[i].response])
  ELSE Handle(probe[i].transport, probe[i].exc)

\* C12: for a URL that urlparse splits into scheme, host and port,
\* check_server returns (url, False, "Invalid URL format") when the host or
\* the port is missing or the port is 0, whatever the scheme; otherwise it
\* calls the plaintext probe for tcp and the encrypted probe for ssl and
\* returns that probe's (success, detail); otherwise it returns (url, False,
\* "Unknown protocol: <scheme>").
C12_Classification ==
  \A i \in 1..Len(fut) :
    Finished(i) /\ ~Components[fut[i].url].raised =>
      LET p == Components[fut[i].url]
          o == fut[i].outcome
      IN /\ ~o.raised
         /\ o.url = fut[i].url
         /\ IF p.hostname \in {None, ""} \/ p.port \in {NoPort, 0}
            THEN /\ ~o.success
                 /\ o.detail = "Invalid URL format"
                 /\ probe[i].transport = ""
            ELSE IF p.scheme \in {"tcp", "ssl"}
            THEN /\ probe[i].transport = p.scheme
                 /\ o.success = ProbeReturn(i).success
                 /\ o.detail = ProbeReturn(i).detail
            ELSE /\ ~o.success
                 /\ o.detail = "Unknown protocol: " \o p.scheme
                 /\ probe[i].transport = ""

\* a URL of an unknown scheme that also lacks its port was classified
C12_Witness ==
  \E i \in 1..Len(fut) :
    /\ Finished(i)
    /\ ~Components[fut[i].url].raised
    /\ Components[fut[i].url].scheme = "ftp"
    /\ Components[fut[i].url].port = NoPort
    /\ fut[i].outcome.detail = "Invalid URL format"

Succeeded == {i \in 1..Len(fut) : Finished(i) /\ ~fut[i].outcome.raised /\ fut[i].outcome.success}
Failed == {i \in 1..Len(fut) : Finished(i) /\ ~fut[i].outcome.raised /\ ~fut[i].outcome.success}

\* C13: the summary is a function of the input and of the outcome of each
\* endpoint alone: whatever the order of completion, working holds exactly
\* the URLs whose outcome is a success, broken exactly the (URL, detail) of
\* those whose outcome is a failure, and the counts are their numbers.
C13_OrderIndependent ==
  AtSummary =>
    /\ WorkingUrls = {fut[i].url : i \in Succeeded}
    /\ Range(broken) = {<<fut[i].url, fut[i].outcome.detail>> : i \in Failed}
    /\ Len(working) = Cardinality(Succeeded)
    /\ Len(broken) = Cardinality(Failed)
    /\ Len(working) + Len(broken) = Len(all_servers)

\* a summary of outcomes that were not taken in the order of the list, with
\* both partitions filled
C13_Witness ==
  /\ mainpc = "summary"
  /\ working # <<>>
  /\ broken # <<>>
  /\ \E p, q \in 1..Len(consumedOrder) : p < q /\ consumedOrder[p] > consumedOrder[q]

\* C14: after the run, the lookup of new_server reports WORKING when it is
\* in the input and its outcome was a success, BROKEN when it is in the
\* input and its outcome was a failure, and nothing when it is not in the
\* input; nothing is reported before the summary.
C14_PointLookup ==
  /\ mainpc # "exited" => lookup = NoLookup
  /\ mainpc = "exited" =>
       /\ (\E i \in Succeeded : fut[i].url = new_server) => lookup = "WORKING"
       /\ (\E i \in Failed : fut[i].url = new_server) => lookup = "BROKEN"
       /\ new_server \notin Range(input) => lookup = NoLookup
       /\ new_server \in Range(input) => lookup \in {"WORKING", "BROKEN"}

\* a run that ended with broken servers, none of them new_server, which is
\* not in the input
C14_Witness ==
  /\ mainpc = "exited"
  /\ broken # <<>>
  /\ working # <<>>
  /\ new_server \notin Range(input)
  /\ lookup = NoLookup

\* C15: a probe opens one socket and makes one connection attempt, and the
\* socket is closed when the probe returns, whichever way it returns; no URL
\* has two futures, so no endpoint is connected to twice; a task that ends
\* before its probe opens none; when the run has ended no socket is open.
C15_OneConnection ==
  /\ \A i, j \in 1..Len(fut) : fut[i].url = fut[j].url => i = j
  /\ \A i \in 1..Len(fut) :
       /\ probe[i].connects <= 1
       /\ probe[i].opened = probe[i].connects
       /\ probe[i].closed <= probe[i].opened
       /\ Finished(i) =>
            /\ probe[i].closed = probe[i].opened
            /\ probe[i].opened = IF probe[i].transport = "" THEN 0 ELSE 1
  /\ mainpc \in {"exited", "aborted"} =>
       \A i \in 1..Len(fut) : probe[i].closed = probe[i].opened

\* the run has ended after probes that returned through each kind of
\* exception handler and through a return
C15_Witness ==
  /\ mainpc = "exited"
  /\ \E i \in 1..Len(fut) : probe[i].exc.cls = "TimeoutError" /\ probe[i].closed = 1
  /\ \E i \in 1..Len(fut) : probe[i].classified /\ probe[i].closed = 1

\* C16: working and broken change only in a step of main() that takes one
\* outcome from as_completed, and then by one entry appended to one of them:
\* the URL to working for a success, (URL, detail) to broken for a failure;
\* a step of a pool thread leaves both lists as they are.
C16_CoordinatorOnly ==
  [][ /\ (workers' # workers \/ fut' # fut \/ queue' # queue) =>
           (working' = working /\ broken' = broken)
      /\ (working' # working \/ broken' # broken) =>
           /\ mainpc = "collect"
           /\ Len(consumedOrder') = Len(consumedOrder) + 1
           /\ LET o == fut[consumedOrder'[Len(consumedOrder')]].outcome
              IN IF o.success
                 THEN working' = Append(working, o.url) /\ broken' = broken
                 ELSE broken' = Append(broken, <<o.url, o.detail>>) /\ working' = working
    ]_vars

\* main() has filled both lists while a pool thread is still inside a probe
C16_Witness ==
  /\ mainpc = "collect"
  /\ working # <<>>
  /\ broken # <<>>
  /\ InFlight > 0

\* the URLs are submitted in ascending order, each input URL once
SubmittedAscending ==
  /\ \A i, j \in 1..Len(fut) : i < j => LexLess(fut[i].url, fut[j].url)
  /\ {fut[i].url : i \in 1..Len(fut)} \subseteq Range(input)
  /\ mainpc # "submit" /\ mainpc # "dedup" => {fut[i].url : i \in 1..Len(fut)} = Range(input)

\* C17 as claimed: the URLs are submitted in ascending order whatever the
\* order of the input, and check_server begins for them in that order.
C17_StartOrder ==
  /\ SubmittedAscending
  /\ \A p, q \in 1..Len(started) : p < q => LexLess(started[p], started[q])

\* C17 as amended: the URLs are submitted in ascending order whatever the
\* order of the input, and the pool's threads take them from the queue in
\* that order; check_server begins for a URL only after a thread took it.
C17_DispatchOrder ==
  /\ SubmittedAscending
  /\ dequeued = [k \in 1..Len(dequeued) |-> k]
  /\ Range(started) \subseteq {fut[i].url : i \in Range(dequeued)}

\* from an input list that is not in ascending order, two threads have taken
\* two URLs in order and check_server began for the second of them first
C17_Witness ==
  /\ \E p, q \in 1..Len(input) : p < q /\ LexLess(input[q], input[p])
  /\ Len(dequeued) >= 2
  /\ Len(started) >= 2
  /\ LexLess(started[2], started[1])

\* C18: no receive is issued once the buffer holds a newline or the peer has
\* closed, and the response is classified only after one of the two; a probe
\* that called connect ends with a classified response or with an exception.
C18_ReadLoop ==
  /\ \A w \in Workers : workers[w].pc = "recv" => ~BufferComplete(w)
  /\ \A i \in 1..Len(fut) :
       /\ ~probe[i].lateRecv
       /\ probe[i].classified => probe[i].eof \/ NL \in Range(probe[i].response)
       /\ probe[i].classified \/ probe[i].exc # NoExc => probe[i].connects = 1
       /\ Finished(i) /\ probe[i].connects = 1 =>
            probe[i].classified \/ probe[i].exc # NoExc

\* a response was classified on its newline, the peer not having closed and
\* the buffer holding bytes that arrived after the newline
C18_Witness ==
  \E i \in 1..Len(fut) :
    /\ probe[i].classified
    /\ ~probe[i].eof
    /\ probe[i].response = <<"{", "\"result\"", ":", "1", "}", NL, "{", "}">>

\* C19: a socket is opened and a connection attempted only by a probe that
\* was called with the transport of scheme tcp or ssl, a non-empty host and
\* a port from 1 to 65535, these being the parsed URL's; a task that ends in
\* check_server before a probe is called opens no socket and attempts no
\* connection.
C19_ConnectOnlyValid ==
  \A i \in 1..Len(fut) :
    /\ probe[i].opened > 0 \/ probe[i].connects > 0 =>
         /\ probe[i].transport \in {"tcp", "ssl"}
         /\ probe[i].host \notin {None, ""}
         /\ probe[i].port \in 1..65535
         /\ ~Components[fut[i].url].raised
         /\ probe[i].transport = Components[fut[i].url].scheme
         /\ probe[i].host = Components[fut[i].url].hostname
         /\ probe[i].port = Components[fut[i].url].port
    /\ EndedInParsing(i) => probe[i].opened = 0 /\ probe[i].connects = 0

\* a connection was attempted to the greatest port
C19_Witness ==
  \E i \in 1..Len(fut) : probe[i].connects = 1 /\ probe[i].port = 65535

\* C20: a run that reaches its summary ends with status 0 exactly when
\* broken is empty, that is when every deduplicated endpoint succeeded (the
\* empty input included), and with status 1 when broken holds an entry; no
\* status is set before the end.
C20_ExitStatus ==
  /\ mainpc \notin {"exited", "aborted"} => exit_status = NotExited
  /\ mainpc = "exited" =>
       /\ exit_status = 0 <=> broken = <<>>
       /\ exit_status = 1 <=> broken # <<>>
       /\ exit_status = 0 <=> Succeeded = 1..Cardinality(Range(input))
       /\ input = <<>> => exit_status = 0

\* a run has ended with status 1 on a report of working and broken servers
C20_Witness ==
  /\ mainpc = "exited"
  /\ exit_status = 1
  /\ working # <<>>
  /\ broken # <<>>

====
